---- MODULE Spec2Model ----
(***************************************************************************)
(* The SpeedAF carrier transport client (src/speedaf_api.py) and the cipher *)
(* codec it imports from the module `tool`.                                 *)
(*                                                                          *)
(* One call of SpeedAFAPI._make_request is a small process: the operation   *)
(* method prepares endpoint and payload and line 41 reads the clock, lines  *)
(* 45 and 47 build the encrypted body and the URL, line 50 issues the POST, *)
(* and lines 50-65 handle what comes back.  Several calls interleave on     *)
(* shared client objects.                                                   *)
(*                                                                          *)
(* Texts are byte sequences (0..255).  A model string is abbreviated to one *)
(* letter of the JSON text (StrByte), everything else of the JSON texts,    *)
(* the padding, the cipher and the hex transport form is computed byte by   *)
(* byte.                                                                    *)
(***************************************************************************)
EXTENDS Integers, Sequences, FiniteSets, TLC

\* ------------------------------------------------------------------ bounds
\* Number of call slots that may be in progress at the same time.
MaxCalls == 2
\* The clock may advance this many units after the initial reading.
MaxClock == 2
\* Clock units per millisecond (the clock is finer than the timestamp).
UnitsPerMs == 2
\* Number of method calls made on one OrderBuilder object.
MaxBuilderCalls == 5
\* The largest goods_qty of an item handed to add_item.
MaxQty == 2

\* --------------------------------------------------------- program constants
\* time.time() + 0.5 seconds: the fixed skew, in milliseconds.
SkewMs == 500
\* The block size of the triple block cipher.
BlockSize == 8

Calls == 1 .. MaxCalls

\* ---------------------------------------------------------------- state
VARIABLES
  client,        \* the SpeedAFAPI objects, by name
  clock,         \* time.time(), in clock units
  ownJsonError,  \* whether the installed requests raises its own JSONDecodeError
  calls,         \* the calls of _make_request, by slot
  builder        \* an OrderBuilder object and what its caller holds of it

vars == <<client, clock, ownJsonError, calls, builder>>

\* ------------------------------------------------------------- JSON values
\* A JSON value is a node; k is the key under which the node sits in its
\* parent mapping ("" elsewhere), n the value of a number.  A mapping keeps its entries in insertion
\* order, as a Python dict does.
Node(t, s, kids) == [t |-> t, s |-> s, kids |-> kids, k |-> "", n |-> 0]
Str(s) == Node("str", s, <<>>)
Num(n) == [Node("num", "", <<>>) EXCEPT !.n = n]
List(items) == Node("list", "", items)
Dict(entries) == Node("dict", "", entries)
Entry(key, node) == [node EXCEPT !.k = key]
None == Node("none", "", <<>>)

\* The strings of the model; each is written as one letter in a JSON text.
Names ==
  << "mailNoList", "trackList", "billCode", "customerCode", "cancelReason",
     "customOrderNo", "acceptName", "data", "sign",
     "ABC123", "NG000660", "NG0206830525525", "customer cancel",
     "189795601", "MA000027", "John Doe",
     "sendName", "sendMobile", "sendAddress", "sendCountryCode",
     "sendCompanyName", "sendPhone", "sendMail", "sendProvinceCode",
     "sendProvinceName", "sendCityCode", "sendCityName", "sendDistrictCode",
     "sendDistrictName", "sendPostCode",
     "acceptMobile", "acceptAddress", "acceptCountryCode",
     "acceptCompanyName", "acceptPhone", "acceptEmail", "acceptProvinceCode",
     "acceptProvinceName", "acceptCityCode", "acceptCityName",
     "acceptDistrictCode", "acceptDistrictName", "acceptPostCode",
     "parcelWeight", "piece", "parcelVolume", "parcelLength", "parcelWidth",
     "parcelHigh", "itemList",
     "goodsName", "goodsNameDialect", "goodsQTY", "goodsValue", "goodsWeight",
     "goodsType", "battery", "blInsure", "dutyMoney", "goodsId", "sku",
     "goodsMaterial", "goodsRemark", "goodsRule", "goodsUnitPrice",
     "makeCountry", "salePath", "unit", "goodsLength", "goodsWidth",
     "goodsHigh", "goodsVolume",
     "deliveryType", "payMethod", "parcelType", "shipType", "transportType",
     "platformSource", "codFee", "insurePrice", "shippingFee", "remark",
     "", "CN", "NG", "IT02", "DE01", "DE02", "PA01", "PT01", "ST01", "TT01",
     "TEST22", "Zhang San", "13800138000", "Beijing", "1778922222", "Lagos",
     "phone case", "funda", "SKU-1", "fragile" >>

\* The letters: a to z first, then the other ASCII bytes that are no JSON
\* punctuation, in ascending order.
RECURSIVE Ascending(_)
Ascending(S) ==
  IF S = {} THEN <<>>
  ELSE LET m == CHOOSE x \in S : \A y \in S : x <= y
       IN  <<m>> \o Ascending(S \ {m})
Letters ==
  [i \in 1 .. 26 |-> 96 + i]
    \o Ascending((1 .. 127) \ ((97 .. 122) \cup {34, 44, 58, 91, 92, 93, 123, 125}))

StrByte(s) == Letters[CHOOSE i \in 1 .. Len(Names) : Names[i] = s]
IsStrByte(b) == \E i \in 1 .. Len(Names) : Letters[i] = b
ByteStr(b) == Names[CHOOSE i \in 1 .. Len(Names) : Letters[i] = b]

\* The ASCII codes of the JSON punctuation.
Ascii ==
  [quote |-> 34, comma |-> 44, colon |-> 58, lbracket |-> 91, backslash |-> 92,
   rbracket |-> 93, lbrace |-> 123, rbrace |-> 125]
Quote == Ascii.quote
Comma == Ascii.comma
Colon == Ascii.colon
LBracket == Ascii.lbracket
Backslash == Ascii.backslash
RBracket == Ascii.rbracket
LBrace == Ascii.lbrace
RBrace == Ascii.rbrace

\* str(n): the decimal digits of a number, as bytes.
RECURSIVE DigitBytes(_)
DigitBytes(n) ==
  IF n < 10 THEN <<48 + n>> ELSE DigitBytes(n \div 10) \o <<48 + (n % 10)>>

RECURSIVE Dumps(_)
RECURSIVE DumpsItems(_, _)
\* json.dumps with compact separators: the canonical text of a value.
DumpsItems(items, withKeys) ==
  IF items = <<>> THEN <<>>
  ELSE LET h == Head(items)
           one == (IF withKeys THEN <<Quote, StrByte(h.k), Quote, Colon>> ELSE <<>>)
                    \o Dumps(h)
       IN  IF Len(items) = 1 THEN one
           ELSE one \o <<Comma>> \o DumpsItems(Tail(items), withKeys)

Dumps(node) ==
  CASE node.t = "str" -> <<Quote, StrByte(node.s), Quote>>
    [] node.t = "list" -> <<LBracket>> \o DumpsItems(node.kids, FALSE) \o <<RBracket>>
    [] node.t = "dict" -> <<LBrace>> \o DumpsItems(node.kids, TRUE) \o <<RBrace>>
    [] node.t = "num" -> DigitBytes(node.n)
    [] OTHER -> <<110, 117, 108, 108>>

ParseFail == [ok |-> FALSE, v |-> None, next |-> 0]
ParseOk(v, next) == [ok |-> TRUE, v |-> v, next |-> next]
At(b, i, c) == i <= Len(b) /\ b[i] = c

RECURSIVE ParseValue(_, _)
RECURSIVE ParseItems(_, _, _)
RECURSIVE ParseEntries(_, _, _)
\* A recursive-descent JSON parser over the bytes of a text, from position i.
ParseValue(b, i) ==
  IF i > Len(b) THEN ParseFail
  ELSE CASE b[i] = Quote ->
              IF i + 2 <= Len(b) /\ IsStrByte(b[i + 1]) /\ b[i + 2] = Quote
              THEN ParseOk(Str(ByteStr(b[i + 1])), i + 3)
              ELSE ParseFail
         [] b[i] = LBracket ->
              IF At(b, i + 1, RBracket) THEN ParseOk(List(<<>>), i + 2)
              ELSE ParseItems(b, i + 1, <<>>)
         [] b[i] = LBrace ->
              IF At(b, i + 1, RBrace) THEN ParseOk(Dict(<<>>), i + 2)
              ELSE ParseEntries(b, i + 1, <<>>)
         [] OTHER -> ParseFail

ParseItems(b, i, acc) ==
  LET r == ParseValue(b, i)
  IN  IF ~r.ok THEN ParseFail
      ELSE IF At(b, r.next, Comma) THEN ParseItems(b, r.next + 1, Append(acc, r.v))
      ELSE IF At(b, r.next, RBracket) THEN ParseOk(List(Append(acc, r.v)), r.next + 1)
      ELSE ParseFail

ParseEntries(b, i, acc) ==
  IF ~(i + 3 <= Len(b) /\ b[i] = Quote /\ IsStrByte(b[i + 1])
        /\ b[i + 2] = Quote /\ b[i + 3] = Colon)
  THEN ParseFail
  ELSE LET r == ParseValue(b, i + 4)
           e == Entry(ByteStr(b[i + 1]), r.v)
       IN  IF ~r.ok THEN ParseFail
           ELSE IF At(b, r.next, Comma) THEN ParseEntries(b, r.next + 1, Append(acc, e))
           ELSE IF At(b, r.next, RBrace) THEN ParseOk(Dict(Append(acc, e)), r.next + 1)
           ELSE ParseFail

\* json.loads: the whole text must be one value; ok = FALSE is JSONDecodeError.
JsonLoads(b) ==
  LET r == ParseValue(b, 1)
  IN  IF r.ok /\ r.next = Len(b) + 1 THEN r ELSE ParseFail

\* bytes.decode(): the texts of the model are ASCII, and a byte above 127
\* never starts a valid sequence here; ok = FALSE is UnicodeDecodeError.
Utf8Ok(b) == \A i \in 1 .. Len(b) : b[i] < 128

\* ------------------------------------------------- the codec (module tool)
\* The key the codec module signs and encrypts with.  _make_request hands
\* the codec no key (lines 45 and 57), so the codec uses its own.
ToolSecretKey == <<117, 89, 77, 71, 114, 56, 101, 85>>
\* Another secret a client may be configured with.
OtherSecretKey == <<115, 51, 99, 114, 51, 116>>

\* Three subkeys of one block each, the secret repeated to the key length.
DeriveKey(secret) ==
  [i \in 1 .. 3 * BlockSize |-> secret[((i - 1) % Len(secret)) + 1]]

\* PKCS block padding: 1..BlockSize bytes, each holding the pad length.
Pad(b) ==
  LET p == BlockSize - (Len(b) % BlockSize)
  IN  b \o [i \in 1 .. p |-> p]

PadOk(b) ==
  /\ Len(b) > 0
  /\ b[Len(b)] \in 1 .. BlockSize
  /\ b[Len(b)] <= Len(b)
  /\ \A i \in (Len(b) - b[Len(b)] + 1) .. Len(b) : b[i] = b[Len(b)]

Unpad(b) == SubSeq(b, 1, Len(b) - b[Len(b)])

\* The block cipher, block by block (encrypt with subkey 1, decrypt with
\* subkey 2, encrypt with subkey 3), as a keyed substitution of each byte of
\* a block by its position in the block.
SubKey(key, n, i) == key[(n - 1) * BlockSize + ((i - 1) % BlockSize) + 1]
EncryptBlocks(b, key) ==
  [i \in 1 .. Len(b) |->
     (b[i] + SubKey(key, 1, i) + (256 - SubKey(key, 2, i)) + SubKey(key, 3, i)) % 256]
DecryptBlocks(b, key) ==
  [i \in 1 .. Len(b) |->
     (b[i] + (256 - SubKey(key, 3, i)) + SubKey(key, 2, i) + (256 - SubKey(key, 1, i))) % 256]

\* The transport text of a byte string: two hex digits a byte.
HexEncode(b) ==
  [i \in 1 .. 2 * Len(b) |->
     IF i % 2 = 1 THEN b[(i + 1) \div 2] \div 16 ELSE b[i \div 2] % 16]

HexOk(t) == Len(t) % 2 = 0 /\ \A i \in 1 .. Len(t) : t[i] \in 0 .. 15
HexDecode(t) == [i \in 1 .. Len(t) \div 2 |-> 16 * t[2 * i - 1] + t[2 * i]]

\* encrypt(plaintext) -> transport text, decrypt(transport text) -> plaintext.
CodecEncrypt(plain, secret) ==
  HexEncode(EncryptBlocks(Pad(plain), DeriveKey(secret)))

\* ok = FALSE is CodecError: the text is no hex, the ciphertext is no whole
\* number of blocks, or the trailing padding is invalid.
CodecDecrypt(text, secret) ==
  IF ~HexOk(text) \/ (Len(text) \div 2) % BlockSize # 0
  THEN [ok |-> FALSE, bytes |-> <<>>]
  ELSE LET p == DecryptBlocks(HexDecode(text), DeriveKey(secret))
       IN  IF PadOk(p) THEN [ok |-> TRUE, bytes |-> Unpad(p)]
           ELSE [ok |-> FALSE, bytes |-> <<>>]

\* triple_des_decrypt(data): the call site passes the text alone.
triple_des_decrypt(text) == CodecDecrypt(text, ToolSecretKey)

\* The digest of the signature, as a running checksum of the bytes: from 7,
\* each byte b takes the sum s to (31 * s + b) % 32749.  Computed half by
\* half: the sum over lo..hi from 0, and the power of 31 a sum is moved by.
RECURSIVE DigestPower(_)
DigestPower(n) ==
  IF n = 0 THEN 1
  ELSE IF n % 2 = 0 THEN (DigestPower(n \div 2) * DigestPower(n \div 2)) % 32749
  ELSE (31 * DigestPower(n - 1)) % 32749
RECURSIVE DigestUpTo(_, _, _)
DigestUpTo(b, lo, hi) ==
  IF lo > hi THEN 0
  ELSE IF lo = hi THEN b[lo] % 32749
  ELSE LET mid == (lo + hi) \div 2
       IN  (DigestUpTo(b, lo, mid) * DigestPower(hi - mid) + DigestUpTo(b, mid + 1, hi))
             % 32749
Digest(b) == (7 * DigestPower(Len(b)) + DigestUpTo(b, 1, Len(b))) % 32749

\* A JSON text as the content of a JSON string: quotes and backslashes
\* escaped.  The bytes lo..hi are taken half by half.
RECURSIVE EscapeUpTo(_, _, _)
EscapeUpTo(b, lo, hi) ==
  IF lo > hi THEN <<>>
  ELSE IF lo = hi
  THEN (IF b[lo] \in {Quote, Backslash} THEN <<Backslash, b[lo]>> ELSE <<b[lo]>>)
  ELSE EscapeUpTo(b, lo, (lo + hi) \div 2) \o EscapeUpTo(b, (lo + hi) \div 2 + 1, hi)
Escape(b) == EscapeUpTo(b, 1, Len(b))

\* The envelope text {"data": <canonical text>, "sign": <digest>} of a payload.
EnvelopeText(data, timeline, secret) ==
  LET canonical == Dumps(data)
      sign == Digest(timeline \o secret \o canonical)
  IN  <<LBrace, Quote, StrByte("data"), Quote, Colon, Quote>> \o Escape(canonical)
        \o <<Quote, Comma, Quote, StrByte("sign"), Quote, Colon, Quote>>
        \o DigitBytes(sign) \o <<Quote, RBrace>>

\* triple_des_encrypt(data, timeline): sign, wrap, encrypt, encode.  The
\* call site passes the payload and the timestamp string alone.
triple_des_encrypt(data, timeline) ==
  CodecEncrypt(EnvelopeText(data, timeline, ToolSecretKey), ToolSecretKey)

\* What the envelope builder works from when _make_request calls it.
BuilderCall(self, data, timeline) ==
  [key |-> ToolSecretKey, payload |-> data, timestamp |-> timeline]

\* ------------------------------------------------------ the client object
ClientIds == {"uat", "prod"}

\* SpeedAFAPI.__init__
SpeedAFAPI(app_code, secret_key, base_url) ==
  [app_code |-> app_code, secret_key |-> secret_key, base_url |-> base_url,
   headers |-> <<"Content-Type", "text/plain">>]

\* A _make_request that is not the code's: the call rewrites the headers of
\* its client.
SelfWithCallHeaders(self, timeline) ==
  [self EXCEPT !.headers = <<"Content-Type", "application/json">>]

\* What _make_request leaves of the client object it runs on: it assigns no
\* attribute of self.
SelfAfterRequest(self, timeline) == self

\* int((time.time() + 0.5) * 1000) as a string, the clock t in clock units.
Timeline(t) == DigitBytes((t + SkewMs * UnitsPerMs) \div UnitsPerMs)

\* A URL that is not the code's: it takes a timestamp of its own from the
\* clock.
MakeUrlFreshTime(self, endpoint, timeline) ==
  [timestamp |-> Timeline(clock), endpoint |-> endpoint,
   base |-> self.base_url, appCode |-> self.app_code]

\* f"{self.base_url}{endpoint}?appCode={self.app_code}&timestamp={timeline}"
MakeUrl(self, endpoint, timeline) ==
  [timestamp |-> timeline, endpoint |-> endpoint,
   base |-> self.base_url, appCode |-> self.app_code]

\* ------------------------------------------------- the operations' payloads
CreateEndpoint == "/open-api/express/order/createOrder"
TrackEndpoint == "/open-api/express/track/query"
CancelEndpoint == "/open-api/express/order/cancelOrder"
UpdateEndpoint == "/open-api/express/order/updateOrder"

CreatePayload(order_data) == order_data
\* A payload that is not the code's: the mapping is sent bare.
UpdatePayloadBare(order_data) == order_data
TrackPayload(mail_no_list) == Dict(<<Entry("mailNoList", mail_no_list)>>)
CancelPayload(customer_code, bill_code, cancel_reason) ==
  List(<< Dict(<< Entry("customerCode", customer_code),
                  Entry("billCode", bill_code),
                  Entry("cancelReason", cancel_reason) >>) >>)
UpdatePayload(order_data) == List(<<order_data>>)

\* The arguments callers pass.
OrderDatas ==
  { Dict(<< Entry("customerCode", Str("MA000027")),
            Entry("billCode", Str("NG0206830525525")) >>) }
MailNoLists == { List(<<Str("ABC123")>>) }
CancelArgs ==
  { <<Str("NG000660"), Str("NG0206830525525"), Str("customer cancel")>> }

\* ------------------------------------------------------- Python mappings
\* Python's truth value of a value: None, "", 0 and an empty list are falsy.
Truthy(v) ==
  CASE v.t = "none" -> FALSE
    [] v.t = "str" -> v.s # ""
    [] v.t = "num" -> v.n # 0
    [] OTHER -> v.kids # <<>>

DictHas(d, key) == \E i \in 1 .. Len(d.kids) : d.kids[i].k = key
DictGet(d, key) == d.kids[CHOOSE i \in 1 .. Len(d.kids) : d.kids[i].k = key]
\* d[key] = v: a key the mapping has keeps its place, a new key goes last.
DictSet(d, key, v) ==
  IF DictHas(d, key)
  THEN [d EXCEPT !.kids = [i \in 1 .. Len(d.kids) |->
                             IF d.kids[i].k = key THEN Entry(key, v) ELSE d.kids[i]]]
  ELSE [d EXCEPT !.kids = Append(d.kids, Entry(key, v))]
\* d.update({...}), the entries in the order of the literal.
RECURSIVE DictUpdate(_, _)
DictUpdate(d, entries) ==
  IF entries = <<>> THEN d
  ELSE DictUpdate(DictSet(d, Head(entries).k, Head(entries)), Tail(entries))
\* The statement "if cond: d[key] = v".
SetIf(cond, d, key, v) == IF cond THEN DictSet(d, key, v) ELSE d

\* --------------------------------------------------------- OrderBuilder
\* A builder object: the mapping self.order_data and the list object its
\* "itemList" entry refers to (the entry itself is the reference ItemListRef).
ItemListRef == Node("ref", "", <<>>)
\* OrderBuilder.__init__
OrderBuilder == [order_data |-> Dict(<<>>), itemList |-> <<>>]

set_custom_order_no(self, custom_order_no) ==
  [self EXCEPT !.order_data = DictSet(@, "customOrderNo", custom_order_no)]

set_customer_code(self, customer_code) ==
  [self EXCEPT !.order_data = DictSet(@, "customerCode", customer_code)]

\* The defaults of the keyword arguments of set_sender and set_receiver.
PartyDefaults ==
  [name |-> None, mobile |-> None, address |-> None, country_code |-> Str("CN"),
   company_name |-> Str(""), phone |-> Str(""), email |-> Str(""),
   province_code |-> Str(""), province_name |-> Str(""), city_code |-> Str(""),
   city_name |-> Str(""), district_code |-> Str(""), district_name |-> Str(""),
   post_code |-> Str("")]

set_sender(self, kw) ==
  [self EXCEPT !.order_data = DictUpdate(@,
     << Entry("sendName", kw.name), Entry("sendMobile", kw.mobile),
        Entry("sendAddress", kw.address), Entry("sendCountryCode", kw.country_code),
        Entry("sendCompanyName", kw.company_name), Entry("sendPhone", kw.phone),
        Entry("sendMail", kw.email), Entry("sendProvinceCode", kw.province_code),
        Entry("sendProvinceName", kw.province_name), Entry("sendCityCode", kw.city_code),
        Entry("sendCityName", kw.city_name), Entry("sendDistrictCode", kw.district_code),
        Entry("sendDistrictName", kw.district_name), Entry("sendPostCode", kw.post_code) >>)]

set_receiver(self, kw) ==
  [self EXCEPT !.order_data = DictUpdate(@,
     << Entry("acceptName", kw.name), Entry("acceptMobile", kw.mobile),
        Entry("acceptAddress", kw.address), Entry("acceptCountryCode", kw.country_code),
        Entry("acceptCompanyName", kw.company_name), Entry("acceptPhone", kw.phone),
        Entry("acceptEmail", kw.email), Entry("acceptProvinceCode", kw.province_code),
        Entry("acceptProvinceName", kw.province_name), Entry("acceptCityCode", kw.city_code),
        Entry("acceptCityName", kw.city_name), Entry("acceptDistrictCode", kw.district_code),
        Entry("acceptDistrictName", kw.district_name), Entry("acceptPostCode", kw.post_code) >>)]

ParcelDefaults ==
  [weight |-> None, volume |-> None, length |-> None, width |-> None,
   height |-> None, piece |-> Num(1)]

set_parcel_info(self, kw) ==
  LET d0 == DictUpdate(self.order_data,
              <<Entry("parcelWeight", kw.weight), Entry("piece", kw.piece)>>)
      d1 == SetIf(kw.volume # None, d0, "parcelVolume", kw.volume)
      d2 == SetIf(kw.length # None, d1, "parcelLength", kw.length)
      d3 == SetIf(kw.width # None, d2, "parcelWidth", kw.width)
      d4 == SetIf(kw.height # None, d3, "parcelHigh", kw.height)
  IN  [self EXCEPT !.order_data = d4]

ItemDefaults ==
  [goods_name |-> None, goods_qty |-> None, goods_value |-> None,
   goods_weight |-> None, goods_name_dialect |-> Str(""), goods_type |-> Str("IT02"),
   battery |-> Num(0), bl_insure |-> Num(0), duty_money |-> Num(0),
   goods_id |-> Str(""), sku |-> Str(""), goods_material |-> Str(""),
   goods_remark |-> Str(""), goods_rule |-> Str(""), goods_unit_price |-> Num(0),
   make_country |-> Str(""), sale_path |-> Str(""), unit |-> Str(""),
   goods_length |-> None, goods_width |-> None, goods_height |-> None,
   goods_volume |-> None]

\* The item mapping of lines 295-323.
Item(kw) ==
  LET i0 == Dict(
        << Entry("goodsName", kw.goods_name),
           Entry("goodsNameDialect",
                 IF Truthy(kw.goods_name_dialect) THEN kw.goods_name_dialect
                 ELSE kw.goods_name),
           Entry("goodsQTY", kw.goods_qty), Entry("goodsValue", kw.goods_value),
           Entry("goodsWeight", kw.goods_weight), Entry("goodsType", kw.goods_type),
           Entry("battery", kw.battery), Entry("blInsure", kw.bl_insure),
           Entry("dutyMoney", kw.duty_money), Entry("goodsId", kw.goods_id),
           Entry("sku", kw.sku), Entry("goodsMaterial", kw.goods_material),
           Entry("goodsRemark", kw.goods_remark), Entry("goodsRule", kw.goods_rule),
           Entry("goodsUnitPrice", kw.goods_unit_price),
           Entry("makeCountry", kw.make_country), Entry("salePath", kw.sale_path),
           Entry("unit", kw.unit) >>)
      i1 == SetIf(kw.goods_length # None, i0, "goodsLength", kw.goods_length)
      i2 == SetIf(kw.goods_width # None, i1, "goodsWidth", kw.goods_width)
      i3 == SetIf(kw.goods_height # None, i2, "goodsHigh", kw.goods_height)
  IN  SetIf(kw.goods_volume # None, i3, "goodsVolume", kw.goods_volume)

\* A builder whose add_item puts the new item first.
AddItemFirst(self, kw) ==
  [order_data |-> SetIf(~DictHas(self.order_data, "itemList"), self.order_data,
                        "itemList", ItemListRef),
   itemList |-> <<Item(kw)>> \o self.itemList]

add_item(self, kw) ==
  [order_data |-> SetIf(~DictHas(self.order_data, "itemList"), self.order_data,
                        "itemList", ItemListRef),
   itemList |-> Append(self.itemList, Item(kw))]

ServiceDefaults ==
  [delivery_type |-> Str("DE01"), pay_method |-> Str("PA01"),
   parcel_type |-> Str("PT01"), ship_type |-> Str("ST01"),
   transport_type |-> Str("TT01"), platform_source |-> Str("TEST22"),
   cod_fee |-> Num(0), insure_price |-> Num(0), shipping_fee |-> Num(0),
   remark |-> Str("")]

set_service_options(self, kw) ==
  [self EXCEPT !.order_data = DictUpdate(@,
     << Entry("deliveryType", kw.delivery_type), Entry("payMethod", kw.pay_method),
        Entry("parcelType", kw.parcel_type), Entry("shipType", kw.ship_type),
        Entry("transportType", kw.transport_type),
        Entry("platformSource", kw.platform_source), Entry("codFee", kw.cod_fee),
        Entry("insurePrice", kw.insure_price), Entry("shippingFee", kw.shipping_fee),
        Entry("remark", kw.remark) >>)]

\* sum(item["goodsQTY"] for item in itemList)
RECURSIVE SumQty(_)
SumQty(items) ==
  IF items = <<>> THEN 0 ELSE DictGet(Head(items), "goodsQTY").n + SumQty(Tail(items))

\* build(): what it leaves of the builder (lines 351-353) ...
BuildSelf(self) ==
  IF DictHas(self.order_data, "itemList") /\ self.itemList # <<>>
  THEN [self EXCEPT !.order_data = DictSet(@, "goodsQTY", Num(SumQty(self.itemList)))]
  ELSE self
\* ... and what it returns: order_data.copy(), a copy of the mapping whose
\* "itemList" entry still refers to the builder's list object.
build(self) == BuildSelf(self).order_data

\* A mapping as its holder sees it, the list object in place of the reference.
Deref(d, itemList) ==
  IF DictHas(d, "itemList") THEN DictSet(d, "itemList", List(itemList)) ELSE d

\* ------------------------------------------------ the facade (src/main.py)
\* A request body is a JSON mapping: a field the caller did not provide is a
\* key the mapping does not have.
Req(entries) == Dict(entries)
Provided(r, key) == DictHas(r, key)
Value(v) == [v EXCEPT !.k = ""]
\* A field of the pydantic model of a request: the caller's value, or the
\* default of the Field.
Field(r, key, default) == IF DictHas(r, key) THEN Value(DictGet(r, key)) ELSE default
\* Items of a list, each mapped by an operator.
RECURSIVE MapKids(_, _)
MapKids(F(_), kids) ==
  IF kids = <<>> THEN <<>> ELSE <<F(Head(kids))>> \o MapKids(F, Tail(kids))
RECURSIVE FoldItems(_, _, _)
FoldItems(F(_, _), self, kids) ==
  IF kids = <<>> THEN self ELSE FoldItems(F, F(self, Head(kids)), Tail(kids))

\* SenderInfo and ReceiverInfo as the keyword arguments the create handler
\* passes to set_sender and set_receiver (lines 167-184).
PartyKw(p, country_default) ==
  [PartyDefaults EXCEPT
     !.name = Field(p, "name", None), !.mobile = Field(p, "mobile", None),
     !.address = Field(p, "address", None),
     !.country_code = Field(p, "country_code", country_default),
     !.company_name = Field(p, "company_name", Str("")),
     !.phone = Field(p, "phone", Str("")), !.email = Field(p, "email", Str(""))]
ParcelKw(p) ==
  [ParcelDefaults EXCEPT
     !.weight = Field(p, "weight", None), !.volume = Field(p, "volume", None),
     !.length = Field(p, "length", None), !.width = Field(p, "width", None),
     !.height = Field(p, "height", None), !.piece = Field(p, "piece", Num(1))]
ItemKw(i) ==
  [ItemDefaults EXCEPT
     !.goods_name = Field(i, "goods_name", None), !.goods_qty = Field(i, "goods_qty", None),
     !.goods_value = Field(i, "goods_value", None),
     !.goods_weight = Field(i, "goods_weight", None),
     !.goods_name_dialect = Field(i, "goods_name_dialect", Str("")),
     !.goods_type = Field(i, "goods_type", Str("IT02")), !.sku = Field(i, "sku", Str(""))]
ServiceKw(v) ==
  [ServiceDefaults EXCEPT
     !.delivery_type = Field(v, "delivery_type", Str("DE01")),
     !.pay_method = Field(v, "pay_method", Str("PA01")),
     !.parcel_type = Field(v, "parcel_type", Str("PT01")),
     !.remark = Field(v, "remark", Str(""))]
AddRequestItem(self, i) == add_item(self, ItemKw(i))

\* The create handler, lines 164-217: the order the builder builds from the
\* request, as the core call receives it.
BuildOrder(r) ==
  LET b1 == set_customer_code(
              set_custom_order_no(OrderBuilder, Field(r, "custom_order_no", None)),
              Field(r, "customer_code", None))
      b2 == set_sender(b1, PartyKw(Field(r, "sender", None), Str("CN")))
      b3 == set_receiver(b2, PartyKw(Field(r, "receiver", None), None))
      b4 == set_parcel_info(b3, ParcelKw(Field(r, "parcel", None)))
      b5 == FoldItems(AddRequestItem, b4, Field(r, "items", List(<<>>)).kids)
      service == Field(r, "service", None)
      b6 == IF service # None THEN set_service_options(b5, ServiceKw(service))
            ELSE set_service_options(b5, ServiceDefaults)
  IN  Deref(build(b6), BuildSelf(b6).itemList)

\* One item of the update payload, lines 320-325.
UpdateItem(i) ==
  Dict(<< Entry("goodsName", Field(i, "goods_name", None)),
          Entry("goodsQTY", Field(i, "goods_qty", None)),
          Entry("goodsValue", Field(i, "goods_value", None)),
          Entry("goodsWeight", Field(i, "goods_weight", None)) >>)

\* The update handler, lines 289-330: update_data from the request.
UpdateData(r) ==
  LET u0 == Dict(<< Entry("billCode", Field(r, "bill_code", None)),
                    Entry("customerCode", Field(r, "customer_code", None)) >>)
      custom == Field(r, "custom_order_no", None)
      u1 == SetIf(Truthy(custom), u0, "customOrderNo", custom)
      sender == Field(r, "sender", None)
      u2 == IF sender # None
            THEN DictUpdate(u1,
                   << Entry("sendName", Field(sender, "name", None)),
                      Entry("sendMobile", Field(sender, "mobile", None)),
                      Entry("sendAddress", Field(sender, "address", None)),
                      Entry("sendCountryCode", Field(sender, "country_code", Str("CN"))) >>)
            ELSE u1
      receiver == Field(r, "receiver", None)
      u3 == IF receiver # None
            THEN DictUpdate(u2,
                   << Entry("acceptName", Field(receiver, "name", None)),
                      Entry("acceptMobile", Field(receiver, "mobile", None)),
                      Entry("acceptAddress", Field(receiver, "address", None)),
                      Entry("acceptCountryCode", Field(receiver, "country_code", None)) >>)
            ELSE u2
      parcel == Field(r, "parcel", None)
      u4 == IF parcel # None
            THEN SetIf(Truthy(Field(parcel, "volume", None)),
                       DictSet(u3, "parcelWeight", Field(parcel, "weight", None)),
                       "parcelVolume", Field(parcel, "volume", None))
            ELSE u3
      items == Field(r, "items", None)
      u5 == SetIf(Truthy(items), u4, "itemList", List(MapKids(UpdateItem, items.kids)))
      service == Field(r, "service", None)
  IN  SetIf(service # None, u5, "remark", Field(service, "remark", Str("")))

\* The requests callers send.
SenderBody ==
  Req(<< Entry("name", Str("Zhang San")), Entry("mobile", Str("13800138000")),
         Entry("address", Str("Beijing")) >>)
ReceiverBody ==
  Req(<< Entry("name", Str("John Doe")), Entry("mobile", Str("1778922222")),
         Entry("address", Str("Lagos")), Entry("country_code", Str("NG")) >>)
ItemBody ==
  Req(<< Entry("goods_name", Str("phone case")), Entry("goods_qty", Num(2)),
         Entry("goods_value", Num(190)), Entry("goods_weight", Num(1)),
         Entry("sku", Str("SKU-1")) >>)
CreateBase ==
  Req(<< Entry("custom_order_no", Str("189795601")),
         Entry("customer_code", Str("MA000027")),
         Entry("sender", SenderBody), Entry("receiver", ReceiverBody),
         Entry("parcel", Req(<<Entry("weight", Num(2))>>)),
         Entry("items", List(<<ItemBody>>)) >>)
CreateRequests ==
  { CreateBase,
    DictSet(CreateBase, "items", List(<<ItemBody, ItemBody>>)),
    DictSet(CreateBase, "service", Req(<<Entry("delivery_type", Str("DE02"))>>)) }
TrackRequests == { Req(<<Entry("mail_no_list", List(<<Str("ABC123")>>))>>) }
CancelRequests ==
  { Req(<< Entry("customer_code", Str("NG000660")),
           Entry("bill_code", Str("NG0206830525525")) >>),
    Req(<< Entry("customer_code", Str("NG000660")),
           Entry("bill_code", Str("NG0206830525525")),
           Entry("cancel_reason", Str("fragile")) >>) }
UpdateBase ==
  Req(<< Entry("bill_code", Str("NG0206830525525")),
         Entry("customer_code", Str("MA000027")) >>)
UpdateRequests ==
  { UpdateBase,
    DictSet(UpdateBase, "custom_order_no", Str("189795601")),
    DictSet(UpdateBase, "custom_order_no", Str("")),
    DictSet(UpdateBase, "sender", SenderBody),
    DictSet(UpdateBase, "sender", DictSet(SenderBody, "phone", Str("13800138000"))),
    DictSet(UpdateBase, "receiver", ReceiverBody),
    DictSet(UpdateBase, "parcel", Req(<<Entry("weight", Num(2))>>)),
    DictSet(UpdateBase, "parcel",
            Req(<<Entry("weight", Num(2)), Entry("volume", Num(3))>>)),
    DictSet(UpdateBase, "parcel",
            Req(<<Entry("weight", Num(2)), Entry("volume", Num(0))>>)),
    DictSet(UpdateBase, "items", List(<<ItemBody>>)),
    DictSet(UpdateBase, "items", List(<<>>)),
    DictSet(UpdateBase, "service", Req(<<Entry("remark", Str("fragile"))>>)),
    DictSet(UpdateBase, "service", Req(<<Entry("delivery_type", Str("DE02"))>>)),
    DictSet(DictSet(DictSet(UpdateBase, "custom_order_no", Str("189795601")),
                    "receiver", ReceiverBody),
            "service", Req(<<Entry("remark", Str("fragile"))>>)) }

\* ------------------------------------------------------------- responses
Body(isJson, isObj, success, hasData, data) ==
  [data |-> data, isJson |-> isJson, isObj |-> isObj, success |-> success,
   hasData |-> hasData]
NotJsonBody == Body(FALSE, FALSE, "absent", FALSE, <<>>)
JsonListBody == Body(TRUE, FALSE, "absent", FALSE, <<>>)
ObjBody(success, hasData, data) == Body(TRUE, TRUE, success, hasData, data)

TrackResult == Dict(<<Entry("trackList", List(<<>>))>>)
BillResult == Dict(<<Entry("billCode", Str("NG0206830525525"))>>)
StubTrackData == CodecEncrypt(Dumps(TrackResult), ToolSecretKey)
BillData == CodecEncrypt(Dumps(BillResult), ToolSecretKey)
\* Encrypted text that is no JSON ("<h"), and bytes that are no UTF-8.
NotJsonData == CodecEncrypt(<<60, 104>>, ToolSecretKey)
NotUtf8Data == CodecEncrypt(<<255, 254>>, ToolSecretKey)
\* Malformed ciphertexts: a digit missing, a byte missing, no padding.
OddHexData == SubSeq(StubTrackData, 1, Len(StubTrackData) - 1)
ShortBlockData == SubSeq(StubTrackData, 1, Len(StubTrackData) - 2)
BadPadData == HexEncode(EncryptBlocks(Dumps(TrackResult), DeriveKey(ToolSecretKey)))

Response(net, status, body) == [net |-> net, status |-> status, body |-> body]

OkBodies ==
  { NotJsonBody, JsonListBody,
    ObjBody("absent", FALSE, <<>>), ObjBody("false", TRUE, StubTrackData),
    ObjBody("true", FALSE, <<>>), ObjBody("true", TRUE, <<>>),
    ObjBody("true", TRUE, StubTrackData), ObjBody("true", TRUE, BillData),
    ObjBody("true", TRUE, NotJsonData), ObjBody("true", TRUE, NotUtf8Data),
    ObjBody("true", TRUE, OddHexData), ObjBody("true", TRUE, ShortBlockData),
    ObjBody("true", TRUE, BadPadData) }

\* What may come back for a POST: no response at all (the exception
\* requests.post raises), or a response with a status and a body.
Responses ==
  { Response("ConnectionError", 0, NotJsonBody), Response("Timeout", 0, NotJsonBody) }
    \cup { Response("response", 200, b) : b \in OkBodies }
    \cup { Response("response", st, ObjBody("true", TRUE, StubTrackData)) :
             st \in {304, 404, 500} }

\* ------------------------------------------------------------ exceptions
\* The message prefixes of the three exceptions _make_request raises itself
\* (lines 60, 63 and 65).
ApiFailed == "API call failed: "
NetworkFailed == "network request failed: "
ParseFailed == "response data parsing failed: "

Exc(cls, msg, detail, cause) ==
  [cls |-> cls, msg |-> msg, detail |-> detail, cause |-> cause]
NoExc == Exc("", "", NotJsonBody, "")
LibExc(cls) == Exc(cls, "", NotJsonBody, "")

\* The classes an exception is an instance of, besides its own.
ExcBases(cls) ==
  CASE cls \in {"ConnectionError", "Timeout", "HTTPError"} -> {"RequestException"}
    [] cls = "requests.JSONDecodeError" -> {"RequestException", "JSONDecodeError"}
    [] cls = "json.JSONDecodeError" -> {"JSONDecodeError", "ValueError"}
    [] cls = "UnicodeDecodeError" -> {"ValueError"}
    [] OTHER -> {}

\* What response.json() raises on a body that is no JSON: the requests
\* library's own JSONDecodeError, a RequestException, since requests 2.27,
\* and json.JSONDecodeError before.
ResponseJsonError(ownError) ==
  IF ownError THEN "requests.JSONDecodeError" ELSE "json.JSONDecodeError"

\* A status check that is not the library's: only a server error raises.
RaiseForStatusServerOnly(status) == status \in 500 .. 599

\* response.raise_for_status(): HTTPError for a 4xx or 5xx status.
RaiseForStatus(status) == status \in 400 .. 599

\* Python's truth value of result.get('success') and result.get('data').
SuccessTruthy(body) == body.success = "true"
DataTruthy(body) == body.hasData /\ body.data # <<>>
\* A test that is not the code's: success is not looked at.
TakesDataIgnoringSuccess(body) == DataTruthy(body)
\* Line 55.
TakesData(body) == SuccessTruthy(body) /\ DataTruthy(body)

\* Except clauses that are not the code's: one clause catches every
\* exception.
ExceptClausesCatchAll(e) == Exc("Exception", NetworkFailed, NotJsonBody, e.cls)

\* The except clauses of lines 62-65, in their order; any other exception
\* leaves _make_request as it is.
ExceptClauses(e) ==
  IF "RequestException" \in ExcBases(e.cls)
  THEN Exc("Exception", NetworkFailed, NotJsonBody, e.cls)
  ELSE IF "JSONDecodeError" \in ExcBases(e.cls)
  THEN Exc("Exception", ParseFailed, NotJsonBody, e.cls)
  ELSE e

Outcome(kind, value, err, parsed, decrypted) ==
  [kind |-> kind, value |-> value, err |-> err, parsed |-> parsed,
   decrypted |-> decrypted]
NoOutcome == Outcome("", None, NoExc, FALSE, FALSE)
Raises(e, parsed, decrypted) ==
  Outcome("raised", None, ExceptClauses(e), parsed, decrypted)
Returns(value) == Outcome("returned", value, NoExc, TRUE, TRUE)

\* A load that is not the code's: a text that does not load gives an empty
\* mapping.
LoadDecryptedLenient(bytes) ==
  IF Utf8Ok(bytes) /\ JsonLoads(bytes).ok THEN Returns(JsonLoads(bytes).v)
  ELSE Returns(Dict(<<>>))

\* json.loads(decrypted_data.decode()) of line 58.
LoadDecrypted(bytes) ==
  IF ~Utf8Ok(bytes) THEN Raises(LibExc("UnicodeDecodeError"), TRUE, TRUE)
  ELSE IF ~JsonLoads(bytes).ok THEN Raises(LibExc("json.JSONDecodeError"), TRUE, TRUE)
  ELSE Returns(JsonLoads(bytes).v)

\* Lines 50-65 on what came back for the POST.
HandleResponse(resp, ownError) ==
  IF resp.net # "response" THEN Raises(LibExc(resp.net), FALSE, FALSE)
  ELSE IF RaiseForStatus(resp.status) THEN Raises(LibExc("HTTPError"), FALSE, FALSE)
  ELSE IF ~resp.body.isJson THEN Raises(LibExc(ResponseJsonError(ownError)), TRUE, FALSE)
  ELSE IF ~resp.body.isObj THEN Raises(LibExc("AttributeError"), TRUE, FALSE)
  ELSE IF ~TakesData(resp.body)
  THEN Raises(Exc("Exception", ApiFailed, resp.body, ""), TRUE, FALSE)
  ELSE LET d == triple_des_decrypt(resp.body.data)
       IN  IF ~d.ok THEN Raises(LibExc("CodecError"), TRUE, TRUE)
           ELSE LoadDecrypted(d.bytes)

\* HandleResponse, tabulated once over the responses of the model.
OutcomeOf == [r \in Responses, own \in BOOLEAN |-> HandleResponse(r, own)]

\* A continuation that is not the code's: a transport failure sends the
\* request again.
NextPcRetry(out) == IF out.err.msg = NetworkFailed THEN "L50" ELSE "DONE"

\* Where a call is after lines 50-65: it has returned or raised, once.
NextPc(out) == "DONE"

\* ------------------------------------------------------- initial state
NoUrl == [timestamp |-> <<>>, endpoint |-> "", base |-> "", appCode |-> ""]
NoBuilderCall == [key |-> <<>>, payload |-> None, timestamp |-> <<>>]
NoResponse == Response("", 0, NotJsonBody)

\* str(e) of an exception: its message, or the library's text for its class.
StrOfExc(e) ==
  [text |-> IF e.msg = "" THEN e.cls ELSE e.cause, body |-> e.detail, msg |-> e.msg]
\* The response of a facade handler; status 0: none yet.
Http(status, success, data, message, detail) ==
  [data |-> data, success |-> success, status |-> status, detail |-> detail,
   message |-> message]
NoHttp == Http(0, FALSE, None, "", StrOfExc(NoExc))

\* builder = OrderBuilder(): the object, the method called last, the number
\* of calls made, the items handed to add_item so far, and the mappings
\* build() has returned, each as returned (its itemList the reference).
NewBuilder ==
  [self |-> OrderBuilder, last |-> "__init__", ncalls |-> 0, added |-> <<>>,
   results |-> <<>>]

IdleCall ==
  [builder |-> NoBuilderCall, data |-> None, timeline |-> <<>>, self |-> "",
   endpoint |-> "", body |-> <<>>, resp |-> NoResponse, out |-> NoOutcome,
   pc |-> "idle", op |-> "", arg |-> None, tRead |-> 0,
   url |-> NoUrl, posts |-> 0, route |-> "", request |-> None, http |-> NoHttp]

Init ==
  /\ client =
       [id \in ClientIds |->
          IF id = "uat"
          THEN SpeedAFAPI("11111111", ToolSecretKey, "https://uat-api.speedaf.com")
          ELSE SpeedAFAPI("22222222", OtherSecretKey, "https://api.speedaf.com")]
  /\ clock = 0
  /\ ownJsonError \in BOOLEAN
  /\ calls = [c \in Calls |-> IdleCall]
  /\ builder = NewBuilder

\* An operation method runs up to line 41 of _make_request: endpoint and
\* payload are set and the clock is read.
Enter(c, id, op, arg, endpoint, data) ==
  /\ calls[c].pc = "idle"
  /\ calls' = [calls EXCEPT ![c] =
       [IdleCall EXCEPT !.pc = "L45", !.self = id, !.op = op, !.arg = arg,
                        !.endpoint = endpoint, !.data = data, !.tRead = clock,
                        !.timeline = Timeline(clock)]]
  /\ UNCHANGED <<client, clock, ownJsonError, builder>>

create_order(c, id, order_data) ==
  Enter(c, id, "create_order", order_data, CreateEndpoint, CreatePayload(order_data))

query_track(c, id, mail_no_list) ==
  Enter(c, id, "query_track", mail_no_list, TrackEndpoint, TrackPayload(mail_no_list))

cancel_order(c, id, args) ==
  Enter(c, id, "cancel_order", List(args), CancelEndpoint,
        CancelPayload(args[1], args[2], args[3]))

update_order(c, id, order_data) ==
  Enter(c, id, "update_order", order_data, UpdateEndpoint, UpdatePayload(order_data))

\* triple_des_encrypt, tabulated once over the payloads and the timestamps
\* of the model.
Payloads ==
  {CreatePayload(o) : o \in OrderDatas}
    \cup {TrackPayload(m) : m \in MailNoLists}
    \cup {CancelPayload(a[1], a[2], a[3]) : a \in CancelArgs}
    \cup {UpdatePayload(o) : o \in OrderDatas}
    \cup {CreatePayload(BuildOrder(r)) : r \in CreateRequests}
    \cup {TrackPayload(Field(r, "mail_no_list", None)) : r \in TrackRequests}
    \cup {CancelPayload(Field(r, "customer_code", None), Field(r, "bill_code", None),
                        Field(r, "cancel_reason", Str("customer cancel"))) :
             r \in CancelRequests}
    \cup {UpdatePayload(UpdateData(r)) : r \in UpdateRequests}
Timelines == {Timeline(t) : t \in 0 .. MaxClock}
EncryptedOf == [d \in Payloads, t \in Timelines |-> triple_des_encrypt(d, t)]

\* Lines 45 and 47: the encrypted body and the URL.
BuildEnvelope(c) ==
  LET call == calls[c]
  IN  /\ call.pc = "L45"
      /\ calls' = [calls EXCEPT ![c] =
           [call EXCEPT !.pc = "L50",
                        !.builder = BuilderCall(client[call.self], call.data, call.timeline),
                        !.body = EncryptedOf[call.data, call.timeline],
                        !.url = MakeUrl(client[call.self], call.endpoint, call.timeline)]]
      /\ client' = [client EXCEPT ![call.self] = SelfAfterRequest(@, call.timeline)]
      /\ UNCHANGED <<clock, ownJsonError, builder>>

\* Line 50: the POST of body to url leaves.
Post(c) ==
  LET call == calls[c]
  IN  /\ call.pc = "L50"
      /\ calls' = [calls EXCEPT ![c] = [call EXCEPT !.pc = "SENT", !.posts = @ + 1]]
      /\ UNCHANGED <<client, clock, ownJsonError, builder>>

\* Lines 50-65: the POST ends, with a response or without, and the call
\* returns or raises.
Respond(c, resp) ==
  LET call == calls[c]
      out == OutcomeOf[resp, ownJsonError]
  IN  /\ call.pc = "SENT"
      /\ calls' = [calls EXCEPT ![c] =
           [call EXCEPT !.pc = NextPc(out), !.resp = resp, !.out = out]]
      /\ UNCHANGED <<client, clock, ownJsonError, builder>>

\* Time passes.
Tick ==
  /\ clock < MaxClock
  /\ clock' = clock + 1
  /\ UNCHANGED <<client, ownJsonError, calls, builder>>

Next ==
  \/ \E c \in Calls, id \in ClientIds, o \in OrderDatas : create_order(c, id, o)
  \/ \E c \in Calls, id \in ClientIds, m \in MailNoLists : query_track(c, id, m)
  \/ \E c \in Calls, id \in ClientIds, a \in CancelArgs : cancel_order(c, id, a)
  \/ \E c \in Calls, id \in ClientIds, o \in OrderDatas : update_order(c, id, o)
  \/ \E c \in Calls : BuildEnvelope(c)
  \/ \E c \in Calls : Post(c)
  \/ \E c \in Calls, r \in Responses : Respond(c, r)
  \/ Tick

Spec == Init /\ [][Next]_vars

\* ------------------------------------------------------ the facade handlers
\* The client of the facade, main.py lines 31-39.
speedaf_api == "uat"

\* A handler that catches the core's own Exception only.
HandlerCatchesOwn(e) == e.cls = "Exception"

\* "except Exception" of the handlers: every exception but the ones that
\* derive from BaseException alone.
HandlerCatches(e) == e.cls \notin {"KeyboardInterrupt", "SystemExit", "GeneratorExit"}

\* What a handler answers after the core call: lines 222-229 and alike.
HttpOf(out, message) ==
  IF out.kind = "returned" THEN Http(200, TRUE, out.value, message, StrOfExc(NoExc))
  ELSE IF HandlerCatches(out.err) THEN Http(500, FALSE, None, "", StrOfExc(out.err))
  ELSE Http(500, FALSE, None, "", StrOfExc(LibExc("Internal Server Error")))

RouteMessage(route) ==
  CASE route = "/api/order/create" -> "order created"
    [] route = "/api/track/query" -> "query succeeded"
    [] route = "/api/order/cancel" -> "cancel request submitted"
    [] OTHER -> "order updated"

\* A handler runs up to its core call, and the core call up to line 41.
Handle(c, route, request, op, arg, endpoint, data) ==
  /\ calls[c].pc = "idle"
  /\ calls' = [calls EXCEPT ![c] =
       [IdleCall EXCEPT !.pc = "L45", !.self = speedaf_api, !.op = op, !.arg = arg,
                        !.endpoint = endpoint, !.data = data, !.tRead = clock,
                        !.timeline = Timeline(clock),
                        !.route = route, !.request = request]]
  /\ UNCHANGED <<client, clock, ownJsonError, builder>>

\* POST /api/order/create
api_order_create(c, request) ==
  LET order_data == BuildOrder(request)
  IN  Handle(c, "/api/order/create", request, "create_order", order_data,
             CreateEndpoint, CreatePayload(order_data))

\* POST /api/track/query
api_track_query(c, request) ==
  LET mail_no_list == Field(request, "mail_no_list", None)
  IN  Handle(c, "/api/track/query", request, "query_track", mail_no_list,
             TrackEndpoint, TrackPayload(mail_no_list))

\* POST /api/order/cancel
api_order_cancel(c, request) ==
  LET customer_code == Field(request, "customer_code", None)
      bill_code == Field(request, "bill_code", None)
      cancel_reason == Field(request, "cancel_reason", Str("customer cancel"))
  IN  Handle(c, "/api/order/cancel", request, "cancel_order",
             List(<<customer_code, bill_code, cancel_reason>>), CancelEndpoint,
             CancelPayload(customer_code, bill_code, cancel_reason))

\* POST /api/order/update
api_order_update(c, request) ==
  LET update_data == UpdateData(request)
  IN  Handle(c, "/api/order/update", request, "update_order", update_data,
             UpdateEndpoint, UpdatePayload(update_data))

\* The core call is over and the handler answers.
HandlerReturn(c) ==
  LET call == calls[c]
  IN  /\ call.pc = "DONE" /\ call.route # "" /\ call.http.status = 0
      /\ calls' = [calls EXCEPT ![c] =
           [call EXCEPT !.http = HttpOf(call.out, RouteMessage(call.route))]]
      /\ UNCHANGED <<client, clock, ownJsonError, builder>>

\* The handlers are async functions that never await: the event loop runs
\* one request at a time, each to its response.
FacadeCalls == {1}

FacadeNext ==
  \/ \E c \in FacadeCalls, r \in CreateRequests : api_order_create(c, r)
  \/ \E c \in FacadeCalls, r \in TrackRequests : api_track_query(c, r)
  \/ \E c \in FacadeCalls, r \in CancelRequests : api_order_cancel(c, r)
  \/ \E c \in FacadeCalls, r \in UpdateRequests : api_order_update(c, r)
  \/ \E c \in FacadeCalls : BuildEnvelope(c)
  \/ \E c \in FacadeCalls : Post(c)
  \/ \E c \in FacadeCalls, r \in Responses : Respond(c, r)
  \/ \E c \in FacadeCalls : HandlerReturn(c)
  \/ Tick

FacadeSpec == Init /\ [][FacadeNext]_vars

\* The keyword arguments of requests.post at line 50; requests waits for the
\* response without limit unless timeout is among them.
PostKwargs == {"data", "headers"}
HasTimeout == "timeout" \in PostKwargs

\* The POST of a call ends because its timeout expired.
TimeoutExpires(c) == Respond(c, Response("Timeout", 0, NotJsonBody))

\* One call on its own: the calls share nothing that a call waits for, so
\* whether a call ends is decided by its own steps.
LiveCalls == {1}

LiveNext ==
  \/ \E c \in LiveCalls, id \in ClientIds, o \in OrderDatas : create_order(c, id, o)
  \/ \E c \in LiveCalls, id \in ClientIds, m \in MailNoLists : query_track(c, id, m)
  \/ \E c \in LiveCalls, id \in ClientIds, a \in CancelArgs : cancel_order(c, id, a)
  \/ \E c \in LiveCalls, id \in ClientIds, o \in OrderDatas : update_order(c, id, o)
  \/ \E c \in LiveCalls : BuildEnvelope(c)
  \/ \E c \in LiveCalls : Post(c)
  \/ \E c \in LiveCalls, r \in Responses : Respond(c, r)
  \/ Tick

\* What the execution guarantees: the interpreter goes on from line 45 to
\* line 50, and a timeout that was set expires.  Nothing makes the carrier
\* answer, and nothing makes a caller begin a call.
LiveSpec ==
  /\ Init
  /\ [][LiveNext]_vars
  /\ \A c \in LiveCalls :
       /\ WF_vars(BuildEnvelope(c))
       /\ WF_vars(Post(c))
       /\ WF_vars(HasTimeout /\ TimeoutExpires(c))

\* ------------------------------------------------- the builder's callers
\* The keyword arguments callers pass the setters.
CustomOrderNos == {Str("TEST22"), Str("")}
CustomerCodes == {Str("MA000027")}
Senders ==
  {[PartyDefaults EXCEPT !.name = Str("Zhang San"), !.mobile = Str("13800138000"),
                         !.address = Str("Beijing")]}
Receivers ==
  {[PartyDefaults EXCEPT !.name = Str("funda"), !.mobile = Str("1778922222"),
                         !.address = Str("Lagos"), !.country_code = Str("NG")]}
Parcels ==
  {[ParcelDefaults EXCEPT !.weight = Num(1)],
   [ParcelDefaults EXCEPT !.weight = Num(2), !.volume = Num(3)]}
Items ==
  {[ItemDefaults EXCEPT !.goods_name = Str("phone case"), !.goods_qty = Num(q),
                        !.goods_value = Num(5), !.goods_weight = Num(1)] :
     q \in 0 .. MaxQty}
    \cup {[ItemDefaults EXCEPT !.goods_name = Str("funda"), !.goods_qty = Num(2),
                               !.goods_value = Num(1), !.goods_weight = Num(1),
                               !.goods_length = Num(4)]}
Services == {ServiceDefaults, [ServiceDefaults EXCEPT !.remark = Str("fragile")]}

\* A call of a method that returns self.
Called(method, self) ==
  /\ builder.ncalls < MaxBuilderCalls
  /\ builder' = [builder EXCEPT !.self = self, !.last = method, !.ncalls = @ + 1]
  /\ UNCHANGED <<client, clock, ownJsonError, calls>>

CallSetCustomOrderNo(v) ==
  Called("set_custom_order_no", set_custom_order_no(builder.self, v))
CallSetCustomerCode(v) ==
  Called("set_customer_code", set_customer_code(builder.self, v))
CallSetSender(kw) == Called("set_sender", set_sender(builder.self, kw))
CallSetReceiver(kw) == Called("set_receiver", set_receiver(builder.self, kw))
CallSetParcelInfo(kw) == Called("set_parcel_info", set_parcel_info(builder.self, kw))
CallSetServiceOptions(kw) ==
  Called("set_service_options", set_service_options(builder.self, kw))

\* builder.add_item(**kw)
CallAddItem(kw) ==
  /\ builder.ncalls < MaxBuilderCalls
  /\ builder' = [builder EXCEPT !.self = add_item(@, kw), !.last = "add_item",
                                !.ncalls = @ + 1, !.added = Append(@, Item(kw))]
  /\ UNCHANGED <<client, clock, ownJsonError, calls>>

\* order_data = builder.build()
CallBuild ==
  /\ builder.ncalls < MaxBuilderCalls
  /\ builder' = [builder EXCEPT !.self = BuildSelf(@), !.last = "build",
                                !.ncalls = @ + 1,
                                !.results = Append(@, build(builder.self))]
  /\ UNCHANGED <<client, clock, ownJsonError, calls>>

BuilderNext ==
  \/ \E v \in CustomOrderNos : CallSetCustomOrderNo(v)
  \/ \E v \in CustomerCodes : CallSetCustomerCode(v)
  \/ \E kw \in Senders : CallSetSender(kw)
  \/ \E kw \in Receivers : CallSetReceiver(kw)
  \/ \E kw \in Parcels : CallSetParcelInfo(kw)
  \/ \E kw \in Services : CallSetServiceOptions(kw)
  \/ \E kw \in Items : CallAddItem(kw)
  \/ CallBuild

BuilderSpec == Init /\ [][BuilderNext]_vars

\* ================================================================ claims
\* The state of a call in the words of the design's state machine.  A call
\* that raised is named after the exception _make_request built for it; an
\* exception that left _make_request unchanged is PROPAGATED.
StateOf(call) ==
  CASE call.pc = "idle" -> "IDLE"
    [] call.pc \in {"L45", "L50"} -> "BUILDING"
    [] call.pc = "SENT" -> "SENT"
    [] call.out.kind = "returned" -> "SUCCEEDED"
    [] call.out.err.msg = ApiFailed -> "CARRIER_REJECTED"
    [] call.out.err.msg = NetworkFailed -> "TRANSPORT_FAILED"
    [] call.out.err.msg = ParseFailed -> "PROTOCOL_FAILED"
    [] OTHER -> "PROPAGATED"

FourOutcomes == {"SUCCEEDED", "CARRIER_REJECTED", "TRANSPORT_FAILED", "PROTOCOL_FAILED"}
Done(c) == calls[c].pc = "DONE"
Built(c) == calls[c].pc \in {"L50", "SENT", "DONE"}

\* One step of a call, from a to b, in a state machine with these terminal
\* states: only BUILDING -> SENT -> terminal, one POST, none after the end.
CallStepOk(a, b, terminals) ==
  /\ StateOf(a) # StateOf(b) =>
       <<StateOf(a), StateOf(b)>> \in
         {<<"IDLE", "BUILDING">>, <<"BUILDING", "SENT">>}
           \cup {<<"SENT", t>> : t \in terminals}
  /\ b.posts = (IF StateOf(b) \in {"IDLE", "BUILDING"} THEN 0 ELSE 1)
  /\ StateOf(a) \notin {"IDLE", "BUILDING", "SENT"} => b = a

ParsedAsJson(call) == call.out.parsed /\ call.resp.body.isJson
SuccessFalsy(call) == call.resp.body.success # "true"
DataAbsent(call) == ~call.resp.body.hasData
CarrierFailure(call) ==
  /\ call.out.kind = "raised"
  /\ call.out.value = None
  /\ call.out.err.msg = ApiFailed
  /\ call.out.err.msg # NetworkFailed
  /\ call.out.err.detail = call.resp.body
  /\ ~call.out.decrypted

\* C2 as stated: every outer response that parses as JSON and whose success
\* is falsy or whose data is absent fails the call with the carrier failure
\* that carries the outer body; nothing is decrypted or returned.
C2_AnyJson ==
  \A c \in Calls :
    Done(c) /\ ParsedAsJson(calls[c]) /\ (SuccessFalsy(calls[c]) \/ DataAbsent(calls[c]))
      => CarrierFailure(calls[c])

\* C2 amended: every outer response that parses as a JSON object and whose
\* success is falsy or whose data is absent fails the call with the carrier
\* failure that carries the outer body; the codec is not invoked, nothing is
\* returned, and the failure is not the transport failure.
C2_CarrierRejection ==
  \A c \in Calls :
    Done(c) /\ ParsedAsJson(calls[c]) /\ calls[c].resp.body.isObj
            /\ (SuccessFalsy(calls[c]) \/ DataAbsent(calls[c]))
      => CarrierFailure(calls[c])

C2_Witness ==
  \E c \in Calls :
    /\ Done(c) /\ calls[c].resp.status = 200
    /\ calls[c].resp.body = ObjBody("false", TRUE, StubTrackData)
    /\ StateOf(calls[c]) = "CARRIER_REJECTED"

\* The inner text of a call's response: what the codec decrypts data to,
\* and what that text parses to (tabulated over the data of the responses).
Datas == {r.body.data : r \in Responses} \cup {<<>>}
DecryptedText == [d \in Datas |-> CodecDecrypt(d, ToolSecretKey)]
ParsedText == [d \in Datas |-> JsonLoads(DecryptedText[d].bytes)]
InnerText(call) == DecryptedText[call.resp.body.data]
InnerJson(call) == ParsedText[call.resp.body.data]
InnerParseFails(call) ==
  /\ call.out.decrypted
  /\ InnerText(call).ok
  /\ Utf8Ok(InnerText(call).bytes)
  /\ ~InnerJson(call).ok

\* C3: when JSON parsing fails at either stage (the outer body is no JSON,
\* or the decrypted inner text is no JSON) the call fails with the protocol
\* failure and no other.
C3_ParseFailureIsProtocol ==
  \A c \in Calls :
    Done(c) /\ ((calls[c].out.parsed /\ ~calls[c].resp.body.isJson)
                  \/ InnerParseFails(calls[c]))
      => /\ calls[c].out.kind = "raised"
         /\ StateOf(calls[c]) = "PROTOCOL_FAILED"

\* The POST of a call failed at the HTTP level.
NoResponseCame(call) == call.resp.net \in {"ConnectionError", "Timeout"}
TransportFailure(call) ==
  /\ call.out.kind = "raised"
  /\ call.out.err.msg = NetworkFailed
  /\ call.out.err.cause = (IF NoResponseCame(call) THEN call.resp.net ELSE "HTTPError")
  /\ ~call.out.parsed
  /\ ~call.out.decrypted
  /\ call.posts = 1

\* C4 as stated: on a non-2xx status, a connection error or a timeout the
\* call fails with the transport failure carrying the cause, the body is
\* neither parsed nor decrypted, and the request is sent once.
C4_Non2xx ==
  \A c \in Calls :
    Done(c) /\ (NoResponseCame(calls[c]) \/ calls[c].resp.status \notin 200 .. 299)
      => TransportFailure(calls[c])

\* C4 amended: on a 4xx or 5xx status, a connection error or a timeout the
\* call fails with the transport failure carrying the cause, the body is
\* neither parsed nor decrypted, and the request is sent once.
C4_TransportFailure ==
  \A c \in Calls :
    Done(c) /\ (NoResponseCame(calls[c]) \/ calls[c].resp.status \in 400 .. 599)
      => TransportFailure(calls[c])

C4_Witness ==
  \E c, d \in Calls :
    /\ Done(c) /\ calls[c].resp.status = 404 /\ calls[c].resp.body.isJson
    /\ StateOf(calls[c]) = "TRANSPORT_FAILED"
    /\ Done(d) /\ calls[d].resp.net = "Timeout"
    /\ StateOf(calls[d]) = "TRANSPORT_FAILED"

\* C5: when success is truthy and data is present but the codec fails
\* decrypting data, the call raises the codec's error: it returns nothing
\* and the error is none of the transport, carrier and protocol failures.
C5_CodecErrorSurfaces ==
  \A c \in Calls :
    Done(c) /\ calls[c].resp.body.success = "true" /\ calls[c].resp.body.hasData
            /\ calls[c].out.decrypted /\ ~InnerText(calls[c]).ok
      => /\ calls[c].out.kind = "raised"
         /\ calls[c].out.value = None
         /\ calls[c].out.err.cls = "CodecError"
         /\ calls[c].out.err.msg \notin {NetworkFailed, ApiFailed, ParseFailed}

C5_Witness ==
  \E c, d \in Calls :
    /\ Done(c) /\ calls[c].resp.body.data = BadPadData
    /\ calls[c].out.err.cls = "CodecError"
    /\ Done(d) /\ calls[d].resp.body.data = ShortBlockData
    /\ calls[d].out.err.cls = "CodecError"

\* C6: the timestamp of a call is the integer number of milliseconds of the
\* time read at call time plus 500 ms, as a string, and the timestamp in the
\* URL is the one handed to the envelope builder.
C6_OneTimestamp ==
  \A c \in Calls :
    /\ calls[c].pc # "idle" =>
         calls[c].timeline = DigitBytes((calls[c].tRead + 500 * UnitsPerMs) \div UnitsPerMs)
    /\ Built(c) =>
         /\ calls[c].url.timestamp = calls[c].timeline
         /\ calls[c].builder.timestamp = calls[c].timeline

C6_Witness ==
  \E c \in Calls :
    /\ calls[c].pc = "SENT"
    /\ calls[c].tRead = 1
    /\ clock > calls[c].tRead
    /\ calls[c].url.timestamp = <<53, 48, 48>>

\* C7: the key that signs and encrypts the envelope of a call is the
\* secret_key its client was configured with.
C7_ClientKeySigns ==
  \A c \in Calls :
    Built(c) =>
      /\ calls[c].builder.key = client[calls[c].self].secret_key
      /\ calls[c].body =
           CodecEncrypt(EnvelopeText(calls[c].data, calls[c].timeline,
                                     client[calls[c].self].secret_key),
                        client[calls[c].self].secret_key)

\* The payload an operation hands the envelope builder, from its argument.
PayloadShapeOk(call) ==
  CASE call.op = "create_order" ->
         /\ call.data = call.arg
         /\ call.endpoint = "/open-api/express/order/createOrder"
    [] call.op = "query_track" ->
         /\ call.data.t = "dict" /\ Len(call.data.kids) = 1
         /\ call.data.kids[1] = [call.arg EXCEPT !.k = "mailNoList"]
         /\ call.endpoint = "/open-api/express/track/query"
    [] call.op = "cancel_order" ->
         /\ call.data.t = "list" /\ Len(call.data.kids) = 1
         /\ call.data.kids[1].t = "dict" /\ call.data.kids[1].k = ""
         /\ call.data.kids[1].kids =
              << [call.arg.kids[1] EXCEPT !.k = "customerCode"],
                 [call.arg.kids[2] EXCEPT !.k = "billCode"],
                 [call.arg.kids[3] EXCEPT !.k = "cancelReason"] >>
         /\ call.endpoint = "/open-api/express/order/cancelOrder"
    [] call.op = "update_order" ->
         /\ call.data.t = "list" /\ Len(call.data.kids) = 1
         /\ call.data.kids[1] = call.arg /\ call.arg.t = "dict"
         /\ call.endpoint = "/open-api/express/order/updateOrder"
    [] OTHER -> FALSE

\* C8: each operation hands the envelope builder the payload shape of its
\* endpoint (create: the caller's mapping; track: {"mailNoList": list};
\* cancel and update: a sequence of one mapping) and posts to that endpoint.
C8_PayloadShapes ==
  \A c \in Calls :
    /\ calls[c].pc # "idle" => PayloadShapeOk(calls[c])
    /\ Built(c) => calls[c].builder.payload = calls[c].data
    /\ calls[c].pc \in {"SENT", "DONE"} =>
         /\ calls[c].posts = 1
         /\ calls[c].url.endpoint = calls[c].endpoint

C8_Witness ==
  \E c, d \in Calls :
    /\ calls[c].pc = "SENT" /\ calls[c].op = "update_order"
    /\ calls[d].pc = "SENT" /\ calls[d].op = "cancel_order"

\* The POST of a call brought a response that is no HTTP error.
PostSucceeded(call) == call.resp.net = "response" /\ call.resp.status \notin 400 .. 599
\* The inner text decrypts, decodes and parses.
InnerLoads(call) ==
  /\ InnerText(call).ok
  /\ Utf8Ok(InnerText(call).bytes)
  /\ InnerJson(call).ok
ReturnPath(call) ==
  /\ PostSucceeded(call)
  /\ call.resp.body.isJson /\ call.resp.body.isObj
  /\ call.resp.body.success = "true" /\ call.resp.body.hasData
  /\ InnerLoads(call)

\* C9: when the POST succeeds and the outer response is JSON with success
\* truthy and data present, the call returns the mapping that data decrypts,
\* decodes and parses to (the encryption of {"trackList": []} gives
\* {"trackList": []}), and a value is returned on this path only.
C9_ReturnsDecrypted ==
  \A c \in Calls :
    Done(c) =>
      /\ ReturnPath(calls[c]) =>
           /\ calls[c].out.kind = "returned"
           /\ calls[c].out.value = InnerJson(calls[c]).v
      /\ (calls[c].out.kind = "returned" \/ calls[c].out.value # None)
           => ReturnPath(calls[c])
      /\ PostSucceeded(calls[c]) /\ calls[c].resp.body.isJson
           /\ calls[c].resp.body.success = "true" /\ calls[c].resp.body.hasData
           /\ calls[c].resp.body.data = StubTrackData
           => calls[c].out.value = Dict(<<Entry("trackList", List(<<>>))>>)

C9_Witness ==
  \E c, d \in Calls :
    /\ Done(c) /\ calls[c].resp.body.data = StubTrackData
    /\ calls[c].out.kind = "returned"
    /\ calls[c].out.value = TrackResult
    /\ Done(d) /\ calls[d].out.kind = "returned"
    /\ calls[d].out.value = BillResult

\* Two calls with the same client, endpoint, payload and timestamp have the
\* same request, and two calls with the same response the same outcome.
OwnInputsDecide ==
  \A c, d \in Calls :
    /\ Built(c) /\ Built(d)
         /\ calls[c].self = calls[d].self /\ calls[c].endpoint = calls[d].endpoint
         /\ calls[c].data = calls[d].data /\ calls[c].timeline = calls[d].timeline
         => calls[c].url = calls[d].url /\ calls[c].body = calls[d].body
    /\ Done(c) /\ Done(d) /\ calls[c].resp = calls[d].resp
         => calls[c].out = calls[d].out

\* C10: no step of a call writes the client objects, a step of one call
\* changes no other call, and the request and the outcome of a call depend
\* on its own payload, timestamp and response only.
C10_NoSharedState ==
  [][/\ client' = client
     /\ \A c, d \in Calls : c # d /\ calls'[c] # calls[c] => calls'[d] = calls[d]
     /\ OwnInputsDecide']_vars

C10_Witness ==
  \E c, d \in Calls :
    /\ c # d /\ Done(c) /\ Done(d)
    /\ calls[c].self = calls[d].self
    /\ calls[c].tRead # calls[d].tRead
    /\ calls[c].resp # calls[d].resp
    /\ calls[c].out.kind = "returned" /\ calls[d].out.kind = "raised"

\* C11: every call reaches a terminal state even when the carrier never
\* answers: a call that is SENT does not stay there forever, it ends, and as
\* a transport failure when no response came.  (Under LiveSpec, which lets a
\* timeout expire only if the POST was issued with one.)
C11_SentCallEnds ==
  \A c \in LiveCalls :
    (calls[c].pc = "SENT") ~>
      (Done(c) /\ (NoResponseCame(calls[c]) =>
                     StateOf(calls[c]) = "TRANSPORT_FAILED"))

\* A handler has answered its caller.
Answered(c) == calls[c].http.status # 0
Routes ==
  {"/api/order/create", "/api/track/query", "/api/order/cancel", "/api/order/update"}

\* C12: on each of the four facade routes every failure the core call
\* raises, of whatever kind, is answered in the same shape, status 500 with
\* the failure's message as detail; an answer with success = true is given
\* only when the core call returned, and its data is the value returned.
C12_UniformFailure ==
  \A c \in FacadeCalls :
    Answered(c) =>
      /\ calls[c].route \in Routes
      /\ calls[c].out.kind = "raised" =>
           calls[c].http = Http(500, FALSE, None, "", StrOfExc(calls[c].out.err))
      /\ calls[c].http.success =>
           /\ calls[c].out.kind = "returned"
           /\ calls[c].http.status = 200
           /\ calls[c].http.data = calls[c].out.value

C12_Witness ==
  \E c \in FacadeCalls :
    /\ Answered(c) /\ calls[c].route = "/api/order/update"
    /\ calls[c].out.err.cls = "CodecError"
    /\ calls[c].http.status = 500
    /\ calls[c].http.detail.text = "CodecError"

\* Where the update handler takes each payload key from: the request part
\* ("" for the request itself) and the field of it.
UpdateSources ==
  { <<"customOrderNo", "", "custom_order_no">>,
    <<"sendName", "sender", "name">>, <<"sendMobile", "sender", "mobile">>,
    <<"sendAddress", "sender", "address">>,
    <<"sendCountryCode", "sender", "country_code">>,
    <<"acceptName", "receiver", "name">>, <<"acceptMobile", "receiver", "mobile">>,
    <<"acceptAddress", "receiver", "address">>,
    <<"acceptCountryCode", "receiver", "country_code">>,
    <<"parcelWeight", "parcel", "weight">>, <<"parcelVolume", "parcel", "volume">>,
    <<"itemList", "", "items">>, <<"remark", "service", "remark">> }
PartProvided(r, src) == src[2] = "" \/ Provided(r, src[2])
ProvidedAt(r, src) ==
  IF src[2] = "" THEN Provided(r, src[3])
  ELSE Provided(r, src[2]) /\ Provided(DictGet(r, src[2]), src[3])
ValueAt(r, src) ==
  IF src[2] = "" THEN Value(DictGet(r, src[3]))
  ELSE Value(DictGet(DictGet(r, src[2]), src[3]))
\* The payload of an update request holds exactly what the caller provided.
OnlyProvidedSent(r, update_data) ==
  /\ DictHas(update_data, "billCode") /\ DictHas(update_data, "customerCode")
  /\ \A i \in 1 .. Len(update_data.kids) :
       update_data.kids[i].k \in {"billCode", "customerCode"}
         \/ \E src \in UpdateSources :
              /\ src[1] = update_data.kids[i].k
              /\ PartProvided(r, src)
              /\ ProvidedAt(r, src)
  /\ \A src \in UpdateSources :
       ProvidedAt(r, src) =>
         /\ DictHas(update_data, src[1])
         /\ src[1] # "itemList" =>
              Value(DictGet(update_data, src[1])) = ValueAt(r, src)

\* C13: the payload the update route hands the core update_order always
\* holds billCode and customerCode, holds any other field only if the caller
\* provided the value it is taken from, and holds every value the caller
\* provided for a field the handler sends.
C13_OnlyProvidedSent ==
  \A c \in FacadeCalls :
    calls[c].route = "/api/order/update" =>
      /\ calls[c].op = "update_order"
      /\ calls[c].data = List(<<calls[c].arg>>)
      /\ OnlyProvidedSent(calls[c].request, calls[c].arg)

\* A mapping build() returned as its holder reads it now, and the mapping
\* the latest build() returned.
Held(order_data) == Deref(order_data, builder.self.itemList)
Returned == builder.results[Len(builder.results)]
QtyOf(order_data) == DictGet(order_data, "goodsQTY").n

\* C14: after any sequence of setter calls with at least one add_item, the
\* mapping build() returns has itemList holding exactly the added items in
\* the order they were added and goodsQTY equal to the sum of their goodsQTY
\* values, at every build() call, also at one made after more add_item calls.
C14_BuildTotals ==
  builder.last = "build" /\ builder.added # <<>> =>
    /\ DictHas(Returned, "itemList") /\ DictHas(Returned, "goodsQTY")
    /\ Value(DictGet(Held(Returned), "itemList")) = List(builder.added)
    /\ Value(DictGet(Returned, "goodsQTY")) = Num(SumQty(builder.added))

C14_Witness ==
  /\ builder.last = "build" /\ Len(builder.results) = 2
  /\ Len(builder.added) = 2 /\ builder.added[1] # builder.added[2]
  /\ DictHas(builder.results[1], "goodsQTY")
  /\ QtyOf(builder.results[1]) = 1 /\ QtyOf(Returned) = 3

====
